---------------------------- MODULE Spec2Model ----------------------------
(***************************************************************************)
(* Model of HKUltra's Signal / Observable / Observer / ObservableValue     *)
(* classes, of the Date value type and of the demonstration program.       *)
(*                                                                         *)
(* Four specifications share the variables:                                *)
(*   Spec        one caller; every public operation is one atomic action   *)
(*   SpecSignal  one caller using two Signals directly                     *)
(*   SpecMain    the three updateDate threads of main()                    *)
(*   SpecConc    two notifying threads and one registering thread          *)
(***************************************************************************)
EXTENDS Integers, Sequences, FiniteSets, TLC

\* ------------------------------------------------------------- bounds
NumObservers == 2      \* Observer objects
NumValues == 2         \* distinct Date arguments the caller may pass
MaxDup == 3            \* connections one caller keeps for one slot on one Signal
MaxConn == 3           \* entries a directly used Signal's list may hold
MaxSteps == 1          \* += / -= a caller applies to one Date object

\* -------------------------------------------------- program constants
BaseYear == 2023       \* main(): Date(Year(2023), month(1), day(1))
EpochShift == 719468   \* days from 0000-03-01 to 1970-01-01 (sys_days)

Observers == 1..NumObservers
Observables == {"S1", "S2"}
Threads == {"t1", "t2", "t3"}
NoThread == "none"

\* =====================================================================
\* Date
\* =====================================================================

\* std::chrono::year::is_leap
is_leap(y) == (y % 4 = 0) /\ ((y % 100 # 0) \/ (y % 400 = 0))

\* Date::lastDayOfMonth
days_in_month == <<31, 28, 31, 30, 31, 30, 31, 31, 30, 31, 30, 31>>

lastDayOfMonth(ymd) ==
    IF is_leap(ymd.year) /\ ymd.month = 2 THEN 29 ELSE days_in_month[ymd.month]

\* ok taking February to have 28 days in every year
ok_noleap(ymd) ==
    /\ ymd.month \in 1..12
    /\ ymd.day >= 1
    /\ ymd.day <= days_in_month[ymd.month]

\* std::chrono::year_month_day::ok
ok(ymd) ==
    /\ ymd.month \in 1..12
    /\ ymd.day >= 1
    /\ ymd.day <= (IF is_leap(ymd.year) /\ ymd.month = 2
                   THEN 29 ELSE days_in_month[ymd.month])

\* std::chrono::sys_days(year_month_day).time_since_epoch().count()
sys_days(ymd) ==
    LET y   == IF ymd.month <= 2 THEN ymd.year - 1 ELSE ymd.year
        era == y \div 400
        yoe == y - era * 400
        mp  == IF ymd.month > 2 THEN ymd.month - 3 ELSE ymd.month + 9
        doy == (153 * mp + 2) \div 5 + ymd.day - 1
        doe == yoe * 365 + yoe \div 4 - yoe \div 100 + doy
    IN  era * 146097 + doe - EpochShift

\* Date::resetSerial
resetSerial(ymd) ==
    [year |-> ymd.year, month |-> ymd.month, day |-> ymd.day,
     serial_number_ |-> sys_days(ymd)]

\* Date::Date(Year, Month, Day); the caller passes a real calendar date
Date(y, m, d) == resetSerial([year |-> y, month |-> m, day |-> d])

\* operator+= taking the years away instead of adding them
PlusAssignYears_minus(date, years) ==
    LET moved == [year |-> date.year - years, month |-> date.month, day |-> date.day]
    IN  IF ok(moved) THEN resetSerial(moved)
        ELSE resetSerial([moved EXCEPT !.day = lastDayOfMonth(moved)])

\* Date::operator+=(const Years&)
PlusAssignYears(date, years) ==
    LET moved == [year |-> date.year + years, month |-> date.month, day |-> date.day]
    IN  IF ok(moved) THEN resetSerial(moved)
        ELSE resetSerial([moved EXCEPT !.day = lastDayOfMonth(moved)])

\* Date::operator+(const Years&): copies *this, then +=
PlusYears(date, years) == PlusAssignYears(date, years)

\* Date::operator-=(const Years&)
MinusAssignYears(date, years) ==
    LET moved == [year |-> date.year - years, month |-> date.month, day |-> date.day]
    IN  IF ok(moved) THEN resetSerial(moved)
        ELSE resetSerial([moved EXCEPT !.day = lastDayOfMonth(moved)])

\* std::chrono::year_month_day::operator+=(const months&): the month moves,
\* carrying into the year; the day is left as it is
plus_months(ymd, months) ==
    LET index == ymd.year * 12 + (ymd.month - 1) + months
    IN  [year |-> index \div 12, month |-> (index % 12) + 1, day |-> ymd.day]

\* Date::operator+=(const Months&)
PlusAssignMonths(date, months) ==
    LET moved == plus_months(date, months)
    IN  IF ok(moved) THEN resetSerial(moved)
        ELSE resetSerial([moved EXCEPT !.day = lastDayOfMonth(moved)])

\* Date::operator-=(const Months&)
MinusAssignMonths(date, months) ==
    LET moved == plus_months(date, 0 - months)
    IN  IF ok(moved) THEN resetSerial(moved)
        ELSE resetSerial([moved EXCEPT !.day = lastDayOfMonth(moved)])

\* std::chrono::year_month_day(sys_days): the civil date of a day count
from_sys_days(count) ==
    LET z   == count + EpochShift
        era == z \div 146097
        doe == z - era * 146097
        yoe == (doe - doe \div 1460 + doe \div 36524 - doe \div 146096) \div 365
        doy == doe - (365 * yoe + yoe \div 4 - yoe \div 100)
        mp  == (5 * doy + 2) \div 153
        m   == IF mp < 10 THEN mp + 3 ELSE mp - 9
    IN  [year  |-> yoe + era * 400 + (IF m <= 2 THEN 1 ELSE 0),
         month |-> m,
         day   |-> doy - (153 * mp + 2) \div 5 + 1]

\* Date::operator+=(const Days&)
PlusAssignDays(date, days) == resetSerial(from_sys_days(sys_days(date) + days))

\* Date::operator-=(const Days&)
MinusAssignDays(date, days) == resetSerial(from_sys_days(sys_days(date) - days))

\* no Date object
NoDate == [year |-> 0, month |-> 0, day |-> 0, serial_number_ |-> 0]

\* operator= copying the calendar fields and leaving the serial number
Assign_noserial(lhs, rhs) ==
    [year |-> rhs.year, month |-> rhs.month, day |-> rhs.day,
     serial_number_ |-> lhs.serial_number_]

\* Date::operator=(const Date&), also run by the copy constructor: the object
\* lhs after the assignment of rhs
Assign(lhs, rhs) ==
    [year |-> rhs.year, month |-> rhs.month, day |-> rhs.day,
     serial_number_ |-> rhs.serial_number_]

\* Date::operator> < >= <=
DateGt(lhs, rhs) == lhs.serial_number_ > rhs.serial_number_
DateLt(lhs, rhs) == lhs.serial_number_ < rhs.serial_number_
DateGe(lhs, rhs) == lhs.serial_number_ >= rhs.serial_number_
DateLe(lhs, rhs) == lhs.serial_number_ <= rhs.serial_number_

\* Date::operator==
DateEq(lhs, rhs) == lhs.serial_number_ = rhs.serial_number_

\* the Date arguments a caller passes: 1 January of BaseYear, BaseYear+1, ...
Values == {Date(BaseYear + k, 1, 1) : k \in 0..(NumValues - 1)}

\* =====================================================================
\* State
\* =====================================================================
VARIABLES
    connections_,      \* Observable::connections_   [Observables -> [Observers -> handle]]
    sig_connections_,  \* Signal::connections_       [Observables -> Seq(weak handle)]
    observables_,      \* Observer::observables_     [Observers -> SUBSET Observables]
    value_,            \* ObservableValue::value_    [Observables -> Date]
    alive,             \* which Observer objects have not been destroyed
    held,              \* ConnectionType handles a direct caller of Signal::connect keeps
    sig_mtx,           \* Signal::mtx_ owner         [Observables -> thread]
    obs_mtx,           \* Observable::mtx_ owner     [Observables -> thread]
    thr,               \* each thread's position and locals
    op,                \* the operation that ran last (observation)
    calls,             \* the onNotify invocations of the last emission, in order
    destroyed,         \* the Observable objects that have been destroyed
    date,              \* a Date object of a caller (NoDate: not constructed)
    rhs,               \* a second Date object of that caller
    steps              \* the arithmetic operations that caller has applied

\* the state of a caller working with Date objects
dateVars == <<date, rhs, steps>>

vars == <<connections_, sig_connections_, observables_, value_, alive, held,
          sig_mtx, obs_mtx, thr, op, calls, destroyed, dateVars>>

\* A connection is the identity of one make_shared<SlotType>: the Signal it was
\* connected to, the observer its slot forwards to, and a number telling apart
\* the connections of one slot to one Signal that exist at the same time.
Conn == [sig : Observables, obs : Observers, n : 1..MaxDup]

\* the empty shared_ptr
Null == [sig |-> "", obs |-> 0, n |-> 0]

\* the handles some shared_ptr still owns: the registries' and the callers'
Strong(reg, keep) ==
    (keep \cup {reg[s][o] : s \in Observables, o \in Observers}) \ {Null}

\* every connection some shared_ptr or weak_ptr still refers to
Referenced(reg, lists, keep) ==
    Strong(reg, keep)
        \cup UNION {{lists[s][i] : i \in 1..Len(lists[s])} : s \in Observables}

\* =====================================================================
\* Signal
\* =====================================================================

\* std::weak_ptr::lock
WeakLock(weak_connection, strong) ==
    IF weak_connection \in strong THEN weak_connection ELSE Null

\* std::make_shared<SlotType>: an object distinct from every one still referenced
FreshConns(s, o) ==
    {c \in Conn : /\ c.sig = s
                  /\ c.obs = o
                  /\ c \notin Referenced(connections_, sig_connections_, held)}

make_shared(s, o) ==
    CHOOSE c \in FreshConns(s, o) : \A d \in FreshConns(s, o) : c.n <= d.n

\* Signal::connect: the new list
connect(list, connection) == Append(list, connection)

\* disconnect that also drops the entries whose handle has expired
RECURSIVE disconnect_prune(_, _, _)
disconnect_prune(list, connection, strong) ==
    IF list = <<>> THEN <<>>
    ELSE IF WeakLock(Head(list), strong) \in {connection, Null}
         THEN disconnect_prune(Tail(list), connection, strong)
         ELSE <<Head(list)>> \o disconnect_prune(Tail(list), connection, strong)

\* disconnect that treats an empty handle as matching no entry
RECURSIVE disconnect_live(_, _, _)
disconnect_live(list, connection, strong) ==
    IF list = <<>> THEN <<>>
    ELSE IF connection # Null /\ WeakLock(Head(list), strong) = connection
         THEN disconnect_live(Tail(list), connection, strong)
         ELSE <<Head(list)>> \o disconnect_live(Tail(list), connection, strong)

\* Signal::disconnect: the list after remove_if(condition) and erase, where
\* condition(weak_connection) is weak_connection.lock() == connection
RECURSIVE disconnect(_, _, _)
disconnect(list, connection, strong) ==
    IF list = <<>> THEN <<>>
    ELSE IF WeakLock(Head(list), strong) = connection
         THEN disconnect(Tail(list), connection, strong)
         ELSE <<Head(list)>> \o disconnect(Tail(list), connection, strong)

\* running the slot of a connection: the slot that ran and its arguments; the
\* slot built by Observable::registerObserver is observer->onNotify(args...),
\* for the observer connection.obs
Slot(connection, args) == <<connection, args>>

\* the condition lambda returning true after the call: a one-shot listener
EmitCondition_oneshot(weak_connection, strong, args) ==
    IF WeakLock(weak_connection, strong) # Null
    THEN [invoked |-> <<Slot(weak_connection, args)>>, remove |-> TRUE]
    ELSE [invoked |-> <<>>, remove |-> TRUE]

\* the condition lambda never asking for removal
EmitCondition_nopurge(weak_connection, strong, args) ==
    IF WeakLock(weak_connection, strong) # Null
    THEN [invoked |-> <<Slot(weak_connection, args)>>, remove |-> FALSE]
    ELSE [invoked |-> <<>>, remove |-> FALSE]

\* Signal::emit, the condition lambda applied to one entry: the invocation made,
\* if any, and whether the entry is marked for removal
EmitCondition(weak_connection, strong, args) ==
    IF WeakLock(weak_connection, strong) # Null
    THEN [invoked |-> <<Slot(weak_connection, args)>>, remove |-> FALSE]
    ELSE [invoked |-> <<>>, remove |-> TRUE]

\* Signal::emit: the traversal of the whole list under the lock; the entries
\* marked for removal are erased after it
RECURSIVE emit(_, _, _)
emit(list, strong, args) ==
    IF list = <<>> THEN [invoked |-> <<>>, kept |-> <<>>]
    ELSE LET here == EmitCondition(Head(list), strong, args)
             rest == emit(Tail(list), strong, args)
         IN  [invoked |-> here.invoked \o rest.invoked,
              kept    |-> (IF here.remove THEN <<>> ELSE <<Head(list)>>) \o rest.kept]

\* =====================================================================
\* Observable and Observer
\* =====================================================================

\* registerObserver without the find() test: connects on every call
registerObserver_nofind(reg, lists, s, o) ==
    LET connection == make_shared(s, o)
    IN  [reg   |-> [reg EXCEPT ![s][o] = connection],
         lists |-> [lists EXCEPT ![s] = connect(@, connection)]]

\* Observable::registerObserver: the registry and the Signals' lists after it
registerObserver(reg, lists, s, o) ==
    IF reg[s][o] = Null
    THEN LET connection == make_shared(s, o)
         IN  [reg   |-> [reg EXCEPT ![s][o] = connection],
              lists |-> [lists EXCEPT ![s] = connect(@, connection)]]
    ELSE [reg |-> reg, lists |-> lists]

\* unregisterObserver taking connections_.begin() when find() fails
unregisterObserver_any(reg, lists, keep, s, o) ==
    LET there == IF reg[s][o] # Null THEN {o} ELSE {p \in Observers : reg[s][p] # Null}
    IN  IF there # {}
        THEN LET p == CHOOSE q \in there : TRUE
             IN  [reg   |-> [reg EXCEPT ![s][p] = Null],
                  lists |-> [lists EXCEPT ![s] =
                                disconnect(@, reg[s][p], Strong(reg, keep))]]
        ELSE [reg |-> reg, lists |-> lists]

\* unregisterObserver that disconnects the slot and forgets to erase the entry
unregisterObserver_keep(reg, lists, keep, s, o) ==
    IF reg[s][o] # Null
    THEN [reg   |-> reg,
          lists |-> [lists EXCEPT ![s] = disconnect(@, reg[s][o], Strong(reg, keep))]]
    ELSE [reg |-> reg, lists |-> lists]

\* Observable::unregisterObserver: the registry and the Signals' lists after it
unregisterObserver(reg, lists, keep, s, o) ==
    IF reg[s][o] # Null
    THEN [reg   |-> [reg EXCEPT ![s][o] = Null],
          lists |-> [lists EXCEPT ![s] = disconnect(@, reg[s][o], Strong(reg, keep))]]
    ELSE [reg |-> reg, lists |-> lists]

\* a destructor that unregisters from nothing
DestructorLoop_skip(reg, lists, keep, todo, o) == [reg |-> reg, lists |-> lists]

\* Observer::~Observer: unregisterObserver on every Observable of observables_
RECURSIVE DestructorLoop(_, _, _, _, _)
DestructorLoop(reg, lists, keep, todo, o) ==
    IF todo = {} THEN [reg |-> reg, lists |-> lists]
    ELSE LET observable == CHOOSE s \in todo : TRUE
             after == unregisterObserver(reg, lists, keep, observable, o)
         IN  DestructorLoop(after.reg, after.lists, keep, todo \ {observable}, o)

\* ObservableValue::set, the guarded store: the value stored after it
StoreIfDifferent(stored, value) ==
    IF ~DateEq(value, stored) THEN value ELSE stored

\* set as its doc comment describes it: the notification inside the if
set_if_changed(stored, list, strong, value) ==
    IF ~DateEq(value, stored)
    THEN LET done == emit(list, strong, value)
         IN  [stored |-> value, invoked |-> done.invoked, kept |-> done.kept]
    ELSE [stored |-> stored, invoked |-> <<>>, kept |-> list]

\* ObservableValue::set run by one caller: the value stored, the slots invoked
\* and the Signal's list after it
set(stored, list, strong, value) ==
    LET now  == StoreIfDifferent(stored, value)
        done == emit(list, strong, now)
    IN  [stored |-> now, invoked |-> done.invoked, kept |-> done.kept]

\* ---------------------------------------------------------------------
\* The record of the operation that ran last
\* ---------------------------------------------------------------------
Op(name, o, s, v, kind) ==
    [name |-> name, obs |-> o, sub |-> s, arg |-> v, kind |-> kind]

\* a thread between two calls: no operation in progress, no locals.
\* call is the public operation the thread is inside, conn the handle
\* signal_.connect returned to it, todo what ~Observer has still to visit;
\* seen is an observation: how each observer stood with the Observable when
\* the thread's notify began ("in", "out"), or "race" when a registerWith or
\* unregisterWith of that observer overlaps the notify
IdleThread == [pc |-> "idle", call |-> "", obs |-> 0, sub |-> "", arg |-> NoDate,
               date |-> NoDate, rest |-> <<>>, kept |-> <<>>, invoked |-> <<>>,
               conn |-> Null, todo |-> {}, seen |-> <<>>]

\* ---------------------------------------------------------------------
\* One caller: every public operation is one action
\* ---------------------------------------------------------------------

\* registerWith without the insert into observables_
RegisterWith_notrack(o, s) ==
    /\ alive[o]
    /\ connections_[s][o] = Null => FreshConns(s, o) # {}
    /\ LET after == registerObserver(connections_, sig_connections_, s, o)
       IN  /\ connections_' = after.reg
           /\ sig_connections_' = after.lists
    /\ op' = Op("registerWith", o, s, NoDate,
                IF connections_[s][o] # Null THEN "again" ELSE "new")
    /\ calls' = <<>>
    /\ UNCHANGED <<destroyed, dateVars, observables_, value_, alive, held, sig_mtx,
                   obs_mtx, thr>>

\* Observer::registerWith
RegisterWith(o, s) ==
    /\ alive[o]
    /\ connections_[s][o] = Null => FreshConns(s, o) # {}
    /\ LET after == registerObserver(connections_, sig_connections_, s, o)
       IN  /\ connections_' = after.reg
           /\ sig_connections_' = after.lists
    /\ observables_' = [observables_ EXCEPT ![o] = @ \cup {s}]
    /\ op' = Op("registerWith", o, s, NoDate,
                IF connections_[s][o] # Null THEN "again" ELSE "new")
    /\ calls' = <<>>
    /\ UNCHANGED <<destroyed, dateVars, value_, alive, held, sig_mtx, obs_mtx, thr>>

\* Observer::unregisterWith
UnregisterWith(o, s) ==
    /\ alive[o]
    /\ LET after == unregisterObserver(connections_, sig_connections_, held, s, o)
       IN  /\ connections_' = after.reg
           /\ sig_connections_' = after.lists
    /\ observables_' = [observables_ EXCEPT ![o] = @ \ {s}]
    /\ op' = Op("unregisterWith", o, s, NoDate,
                IF connections_[s][o] # Null THEN "present" ELSE "absent")
    /\ calls' = <<>>
    /\ UNCHANGED <<destroyed, dateVars, value_, alive, held, sig_mtx, obs_mtx, thr>>

\* Observable::notifyObservers
NotifyObservers(s, v) ==
    /\ LET done == emit(sig_connections_[s], Strong(connections_, held), v)
       IN  /\ sig_connections_' = [sig_connections_ EXCEPT ![s] = done.kept]
           /\ calls' = done.invoked
    /\ op' = Op("notify", 0, s, v, "")
    /\ UNCHANGED <<destroyed, dateVars, connections_, observables_, value_, alive, held,
                   sig_mtx, obs_mtx, thr>>

\* ObservableValue::set
Set(s, v) ==
    /\ LET done == set(value_[s], sig_connections_[s], Strong(connections_, held), v)
       IN  /\ value_' = [value_ EXCEPT ![s] = done.stored]
           /\ sig_connections_' = [sig_connections_ EXCEPT ![s] = done.kept]
           /\ calls' = done.invoked
    /\ op' = Op("set", 0, s, v, IF DateEq(v, value_[s]) THEN "same" ELSE "changed")
    /\ UNCHANGED <<destroyed, dateVars, connections_, observables_, alive, held, sig_mtx, obs_mtx, thr>>

\* ObservableValue::get
Get(s) ==
    /\ op' = Op("get", 0, s, value_[s], "")
    /\ calls' = <<>>
    /\ UNCHANGED <<destroyed, dateVars, connections_, sig_connections_, observables_, value_, alive,
                   held, sig_mtx, obs_mtx, thr>>

\* Observer::~Observer
DestroyObserver(o) ==
    /\ alive[o]
    /\ LET after == DestructorLoop(connections_, sig_connections_, held,
                                   observables_[o], o)
       IN  /\ connections_' = after.reg
           /\ sig_connections_' = after.lists
    /\ alive' = [alive EXCEPT ![o] = FALSE]
    /\ observables_' = [observables_ EXCEPT ![o] = {}]
    /\ op' = Op("destroy", o, "", NoDate,
                IF observables_[o] # {} THEN "tracking" ELSE "idle")
    /\ calls' = <<>>
    /\ UNCHANGED <<destroyed, dateVars, value_, held, sig_mtx, obs_mtx, thr>>

Init ==
    /\ connections_ = [s \in Observables |-> [o \in Observers |-> Null]]
    /\ sig_connections_ = [s \in Observables |-> <<>>]
    /\ observables_ = [o \in Observers |-> {}]
    /\ value_ = [s \in Observables |-> Date(BaseYear, 1, 1)]
    /\ alive = [o \in Observers |-> TRUE]
    /\ held = {}
    /\ sig_mtx = [s \in Observables |-> NoThread]
    /\ obs_mtx = [s \in Observables |-> NoThread]
    /\ thr = [t \in Threads |-> IdleThread]
    /\ op = Op("init", 0, "", NoDate, "")
    /\ calls = <<>>
    /\ destroyed = {}
    /\ date = NoDate
    /\ rhs = NoDate
    /\ steps = 0

Next ==
    \/ \E o \in Observers, s \in Observables : RegisterWith(o, s)
    \/ \E o \in Observers, s \in Observables : UnregisterWith(o, s)
    \/ \E s \in Observables, v \in Values : NotifyObservers(s, v)
    \/ \E s \in Observables, v \in Values : Set(s, v)
    \/ \E s \in Observables : Get(s)
    \/ \E o \in Observers : DestroyObserver(o)

Spec == Init /\ [][Next]_vars

\* ---------------------------------------------------------------------
\* One caller using the Signals directly
\* ---------------------------------------------------------------------

\* the entries of a listener list
Entries(list) == {list[i] : i \in 1..Len(list)}

\* the observer the slots a direct caller connects forward to
CallerSlot == CHOOSE o \in Observers : \A p \in Observers : o <= p

\* Signal::connect(slot), the caller keeping the handle returned
SignalConnect(s, o) ==
    /\ Cardinality(Referenced(connections_, sig_connections_, held)) < MaxConn
    /\ FreshConns(s, o) # {}
    /\ LET connection == make_shared(s, o)
       IN  /\ sig_connections_' = [sig_connections_ EXCEPT ![s] = connect(@, connection)]
           /\ held' = held \cup {connection}
    /\ op' = Op("connect", 0, "", NoDate, "")
    /\ calls' = <<>>
    /\ UNCHANGED <<destroyed, dateVars, connections_, observables_, value_, alive, sig_mtx, obs_mtx, thr>>

\* Signal::disconnect(connection) with a handle the caller keeps, or an empty one
SignalDisconnect(s, connection) ==
    /\ sig_connections_' = [sig_connections_ EXCEPT ![s] =
                               disconnect(@, connection, Strong(connections_, held))]
    /\ op' = Op("disconnect", 0, "", NoDate,
                IF connection = Null
                THEN (IF Entries(sig_connections_[s]) \subseteq Strong(connections_, held)
                      THEN "empty" ELSE "expired")
                ELSE IF connection \in Entries(sig_connections_[s]) THEN "own"
                ELSE IF connection.sig # s THEN "foreign"
                ELSE "gone")
    /\ calls' = <<>>
    /\ UNCHANGED <<destroyed, dateVars, connections_, observables_, value_, alive, held, sig_mtx,
                   obs_mtx, thr>>

\* the caller lets go of a handle: ~shared_ptr
DropHandle(connection) ==
    /\ held' = held \ {connection}
    /\ op' = Op("drop", 0, "", NoDate, "")
    /\ calls' = <<>>
    /\ UNCHANGED <<destroyed, dateVars, connections_, sig_connections_, observables_, value_, alive,
                   sig_mtx, obs_mtx, thr>>

\* Signal::emit(args)
SignalEmit(s, v) ==
    /\ LET done == emit(sig_connections_[s], Strong(connections_, held), v)
       IN  /\ sig_connections_' = [sig_connections_ EXCEPT ![s] = done.kept]
           /\ calls' = done.invoked
    /\ op' = Op("emit", 0, "", NoDate,
                IF Entries(sig_connections_[s]) \subseteq Strong(connections_, held)
                THEN "clean" ELSE "purged")
    /\ UNCHANGED <<destroyed, dateVars, connections_, observables_, value_, alive, held, sig_mtx,
                   obs_mtx, thr>>

NextSignal ==
    \/ \E s \in Observables : SignalConnect(s, CallerSlot)
    \/ \E s \in Observables, c \in held \cup {Null} : SignalDisconnect(s, c)
    \/ \E c \in held : DropHandle(c)
    \/ \E s \in Observables, v \in Values : SignalEmit(s, v)

SpecSignal == Init /\ [][NextSignal]_vars

\* ---------------------------------------------------------------------
\* Threads: the steps of the operations, split where a thread can wait for
\* a mutex or be overtaken by another thread
\* ---------------------------------------------------------------------

\* ObservableValue::get: the copy of value_ made under ObservableValue::mtx_
GetValue(t, s) ==
    /\ thr' = [thr EXCEPT ![t].pc = "got", ![t].sub = s, ![t].date = value_[s]]
    /\ UNCHANGED <<destroyed, dateVars, connections_, sig_connections_, observables_, value_, alive,
                   held, sig_mtx, obs_mtx, op, calls>>

\* ObservableValue::set, the block under ObservableValue::mtx_
SetStore(t, s, value) ==
    /\ value_' = [value_ EXCEPT ![s] = StoreIfDifferent(@, value)]
    /\ thr' = [thr EXCEPT ![t].pc = "set_notify", ![t].sub = s, ![t].date = value]
    /\ UNCHANGED <<destroyed, dateVars, connections_, sig_connections_, observables_, alive, held,
                   sig_mtx, obs_mtx, op, calls>>

\* ObservableValue::set, this->notifyObservers(value_): value_ is copied into
\* the argument after the mutex was released
SetNotify(t) ==
    /\ thr[t].pc = "set_notify"
    /\ thr' = [thr EXCEPT ![t].pc = "emit_wait", ![t].arg = value_[thr[t].sub]]
    /\ UNCHANGED <<destroyed, dateVars, connections_, sig_connections_, observables_, value_, alive,
                   held, sig_mtx, obs_mtx, op, calls>>

\* the positions of a thread inside registerObserver or unregisterObserver
Mutating == {"register", "reg_locked", "connect_wait", "connect_locked",
             "reg_store", "reg_track",
             "unregister", "unreg_locked", "disconnect_wait",
             "disconnect_locked", "unreg_erase", "unreg_track"}

\* the positions of a thread inside notifyObservers
Emitting == {"emit_wait", "emit_walk"}

\* how observer o stands with Observable s at this moment
Standing(o, s) ==
    IF \E u \in Threads : /\ thr[u].pc \in Mutating
                          /\ thr[u].obs = o
                          /\ thr[u].sub = s
    THEN "race"
    ELSE IF connections_[s][o] # Null THEN "in" ELSE "out"

\* how every observer stands with Observable s at this moment
Standings(s) == [o \in Observers |-> Standing(o, s)]

\* Observable::notifyObservers(args) called by a thread; seen is what is
\* observed of the observers at this moment (<<>>: nothing)
NotifyBegin(t, s, v, seen) ==
    /\ thr[t].pc = "idle"
    /\ thr' = [thr EXCEPT ![t].pc = "emit_wait", ![t].call = "notify",
                          ![t].sub = s, ![t].arg = v, ![t].seen = seen]
    /\ UNCHANGED <<destroyed, dateVars, connections_, sig_connections_, observables_, value_, alive,
                   held, sig_mtx, obs_mtx, op, calls>>

\* Signal::emit without its lock_guard
EmitLock_nolock(t) ==
    /\ thr[t].pc = "emit_wait"
    /\ thr' = [thr EXCEPT ![t].pc = "emit_walk",
                          ![t].rest = sig_connections_[thr[t].sub],
                          ![t].kept = <<>>,
                          ![t].invoked = <<>>]
    /\ UNCHANGED <<destroyed, dateVars, connections_, sig_connections_, observables_, value_, alive,
                   held, sig_mtx, obs_mtx, op, calls>>

\* Signal::emit, std::lock_guard lock(mtx_): the traversal starts at begin()
EmitLock(t) ==
    /\ thr[t].pc = "emit_wait"
    /\ sig_mtx[thr[t].sub] = NoThread
    /\ sig_mtx' = [sig_mtx EXCEPT ![thr[t].sub] = t]
    /\ thr' = [thr EXCEPT ![t].pc = "emit_walk",
                          ![t].rest = sig_connections_[thr[t].sub],
                          ![t].kept = <<>>,
                          ![t].invoked = <<>>]
    /\ UNCHANGED <<destroyed, dateVars, connections_, sig_connections_, observables_, value_, alive,
                   held, obs_mtx, op, calls>>

\* Signal::emit, remove_if applying the condition to the next entry
EmitVisit(t) ==
    /\ thr[t].pc = "emit_walk"
    /\ thr[t].rest # <<>>
    /\ LET here == EmitCondition(Head(thr[t].rest), Strong(connections_, held),
                                 thr[t].arg)
       IN  thr' = [thr EXCEPT ![t].rest = Tail(@),
                              ![t].invoked = @ \o here.invoked,
                              ![t].kept = IF here.remove THEN @
                                          ELSE Append(@, Head(thr[t].rest))]
    /\ UNCHANGED <<destroyed, dateVars, connections_, sig_connections_, observables_, value_, alive,
                   held, sig_mtx, obs_mtx, op, calls>>

\* Signal::emit, erase of the entries marked and release of the lock; the
\* thread's call has returned
EmitUnlock(t, after) ==
    /\ thr[t].pc = "emit_walk"
    /\ thr[t].rest = <<>>
    /\ sig_connections_' = [sig_connections_ EXCEPT ![thr[t].sub] = thr[t].kept]
    /\ sig_mtx' = [sig_mtx EXCEPT ![thr[t].sub] = NoThread]
    /\ thr' = [thr EXCEPT ![t] = [IdleThread EXCEPT !.pc = after]]
    /\ UNCHANGED <<destroyed, dateVars, connections_, observables_, value_, alive, held, obs_mtx,
                   op, calls>>

\* ---------------------------------------------------------------------
\* main(): observer1 and observer2 registered with observableDate, then three
\* threads running updateDate with 1, 2 and 3 years
\* ---------------------------------------------------------------------
observableDate == "S1"

yearsToAdd == [t \in Threads |-> CASE t = "t1" -> 1 [] t = "t2" -> 2 [] OTHER -> 3]

\* the state when the threads start: both observers registered, in this order
InitMain ==
    /\ connections_ = [s \in Observables |-> [o \in Observers |->
                          IF s = observableDate /\ o \in {1, 2}
                          THEN [sig |-> s, obs |-> o, n |-> 1] ELSE Null]]
    /\ sig_connections_ = [s \in Observables |->
                              IF s = observableDate
                              THEN <<[sig |-> s, obs |-> 1, n |-> 1],
                                     [sig |-> s, obs |-> 2, n |-> 1]>>
                              ELSE <<>>]
    /\ observables_ = [o \in Observers |->
                          IF o \in {1, 2} THEN {observableDate} ELSE {}]
    /\ value_ = [s \in Observables |-> Date(BaseYear, 1, 1)]
    /\ alive = [o \in Observers |-> TRUE]
    /\ held = {}
    /\ sig_mtx = [s \in Observables |-> NoThread]
    /\ obs_mtx = [s \in Observables |-> NoThread]
    /\ thr = [t \in Threads |-> [IdleThread EXCEPT !.pc = "start"]]
    /\ op = Op("init", 0, "", NoDate, "")
    /\ calls = <<>>
    /\ destroyed = {}
    /\ date = NoDate
    /\ rhs = NoDate
    /\ steps = 0

\* updateDate: Date newDate = observableDate.get()
MainGet(t) ==
    /\ thr[t].pc = "start"
    /\ GetValue(t, observableDate)

\* updateDate: observableDate.set(newDate + yearsToAdd)
MainSet(t) ==
    /\ thr[t].pc = "got"
    /\ SetStore(t, observableDate, PlusYears(thr[t].date, yearsToAdd[t]))

NextMain ==
    \E t \in Threads :
        \/ MainGet(t)
        \/ MainSet(t)
        \/ SetNotify(t)
        \/ EmitLock(t)
        \/ EmitVisit(t)
        \/ EmitUnlock(t, "done")

SpecMain == InitMain /\ [][NextMain]_vars

\* every thread of main() has been joined
MainJoined == \A t \in Threads : thr[t].pc = "done"

\* ---------------------------------------------------------------------
\* Two threads notifying one Observable while a third registers and
\* unregisters observers with it
\* ---------------------------------------------------------------------
Notifiers == {"t1", "t2"}
Mutators == {"t3"}
subject == "S1"

\* Observer::registerWith / unregisterWith called by a thread; the notifies in
\* progress on the same Observable note that the call overlaps them
MutateBegin(t, call, o) ==
    /\ thr[t].pc = "idle"
    /\ alive[o]
    /\ thr' = [u \in Threads |->
                  IF u = t
                  THEN [thr[t] EXCEPT !.pc = call, !.call = call, !.obs = o,
                                      !.sub = subject]
                  ELSE IF thr[u].pc \in Emitting /\ thr[u].sub = subject
                            /\ thr[u].seen # <<>>
                       THEN [thr[u] EXCEPT !.seen[o] = "race"]
                       ELSE thr[u]]
    /\ UNCHANGED <<destroyed, dateVars, connections_, sig_connections_, observables_,
                   value_, alive, held, sig_mtx, obs_mtx, op, calls>>

\* registerObserver / unregisterObserver, std::lock_guard lock(mtx_)
RegistryLock(t) ==
    /\ thr[t].pc \in {"register", "unregister"}
    /\ obs_mtx[thr[t].sub] = NoThread
    /\ obs_mtx' = [obs_mtx EXCEPT ![thr[t].sub] = t]
    /\ thr' = [thr EXCEPT ![t].pc = IF @ = "register" THEN "reg_locked"
                                    ELSE "unreg_locked"]
    /\ UNCHANGED <<destroyed, dateVars, connections_, sig_connections_, observables_,
                   value_, alive, held, sig_mtx, op, calls>>

\* registerObserver, connections_.find(observer): when the observer is found
\* the call returns, releasing Observable::mtx_; when it is not, signal_.connect
\* is entered and makes the shared slot
RegisterFind(t) ==
    /\ thr[t].pc = "reg_locked"
    /\ IF connections_[thr[t].sub][thr[t].obs] # Null
       THEN /\ obs_mtx' = [obs_mtx EXCEPT ![thr[t].sub] = NoThread]
            /\ thr' = [thr EXCEPT ![t].pc = "reg_track"]
            /\ UNCHANGED held
       ELSE /\ FreshConns(thr[t].sub, thr[t].obs) # {}
            /\ LET connection == make_shared(thr[t].sub, thr[t].obs)
               IN  /\ held' = held \cup {connection}
                   /\ thr' = [thr EXCEPT ![t].pc = "connect_wait",
                                         ![t].conn = connection]
            /\ UNCHANGED obs_mtx
    /\ UNCHANGED <<destroyed, dateVars, connections_, sig_connections_, observables_,
                   value_, alive, sig_mtx, op, calls>>

\* Signal::connect / Signal::disconnect, std::lock_guard lock(mtx_), reached
\* with Observable::mtx_ held
SignalLock(t) ==
    /\ thr[t].pc \in {"connect_wait", "disconnect_wait"}
    /\ sig_mtx[thr[t].sub] = NoThread
    /\ sig_mtx' = [sig_mtx EXCEPT ![thr[t].sub] = t]
    /\ thr' = [thr EXCEPT ![t].pc = IF @ = "connect_wait" THEN "connect_locked"
                                    ELSE "disconnect_locked"]
    /\ UNCHANGED <<destroyed, dateVars, connections_, sig_connections_, observables_,
                   value_, alive, held, obs_mtx, op, calls>>

\* ConnectPush returning with Signal::mtx_ still locked
ConnectPush_hold(t) ==
    /\ thr[t].pc = "connect_locked"
    /\ sig_connections_' = [sig_connections_ EXCEPT ![thr[t].sub] =
                               connect(@, thr[t].conn)]
    /\ thr' = [thr EXCEPT ![t].pc = "reg_store"]
    /\ UNCHANGED <<destroyed, dateVars, connections_, observables_, value_, alive,
                   held, sig_mtx, obs_mtx, op, calls>>

\* Signal::connect, connections_.push_back(connection) and the release of
\* Signal::mtx_
ConnectPush(t) ==
    /\ thr[t].pc = "connect_locked"
    /\ sig_connections_' = [sig_connections_ EXCEPT ![thr[t].sub] =
                               connect(@, thr[t].conn)]
    /\ sig_mtx' = [sig_mtx EXCEPT ![thr[t].sub] = NoThread]
    /\ thr' = [thr EXCEPT ![t].pc = "reg_store"]
    /\ UNCHANGED <<destroyed, dateVars, connections_, observables_, value_, alive,
                   held, obs_mtx, op, calls>>

\* registerObserver, connections_[observer] = (the handle returned), and the
\* release of Observable::mtx_
RegisterStore(t) ==
    /\ thr[t].pc = "reg_store"
    /\ connections_' = [connections_ EXCEPT ![thr[t].sub][thr[t].obs] = thr[t].conn]
    /\ held' = held \ {thr[t].conn}
    /\ obs_mtx' = [obs_mtx EXCEPT ![thr[t].sub] = NoThread]
    /\ thr' = [thr EXCEPT ![t].pc = "reg_track", ![t].conn = Null]
    /\ UNCHANGED <<destroyed, dateVars, sig_connections_, observables_, value_,
                   alive, sig_mtx, op, calls>>

\* registerWith: observables_.insert(&observable)
RegisterTrack(t) ==
    /\ thr[t].pc = "reg_track"
    /\ observables_' = [observables_ EXCEPT ![thr[t].obs] = @ \cup {thr[t].sub}]
    /\ thr' = [thr EXCEPT ![t] = IdleThread]
    /\ UNCHANGED <<destroyed, dateVars, connections_, sig_connections_, value_, alive,
                   held, sig_mtx, obs_mtx, op, calls>>

\* where unregisterObserver returns to: the loop of ~Observer, or unregisterWith
AfterUnregister(t) ==
    IF thr[t].call = "destroy" THEN "dtor_loop" ELSE "unreg_track"

\* unregisterObserver, connections_.find(observer): when the observer is not
\* found the call returns, releasing Observable::mtx_; when it is,
\* signal_.disconnect(it->second) is entered
UnregisterFind(t) ==
    /\ thr[t].pc = "unreg_locked"
    /\ IF connections_[thr[t].sub][thr[t].obs] = Null
       THEN /\ obs_mtx' = [obs_mtx EXCEPT ![thr[t].sub] = NoThread]
            /\ thr' = [thr EXCEPT ![t].pc = AfterUnregister(t)]
       ELSE /\ thr' = [thr EXCEPT ![t].pc = "disconnect_wait"]
            /\ UNCHANGED obs_mtx
    /\ UNCHANGED <<destroyed, dateVars, connections_, sig_connections_, observables_,
                   value_, alive, held, sig_mtx, op, calls>>

\* DisconnectRemove leaving the list as it is
DisconnectRemove_none(t) ==
    /\ thr[t].pc = "disconnect_locked"
    /\ sig_mtx' = [sig_mtx EXCEPT ![thr[t].sub] = NoThread]
    /\ thr' = [thr EXCEPT ![t].pc = "unreg_erase"]
    /\ UNCHANGED <<destroyed, dateVars, connections_, sig_connections_, observables_,
                   value_, alive, held, obs_mtx, op, calls>>

\* Signal::disconnect, remove_if and erase, and the release of Signal::mtx_
DisconnectRemove(t) ==
    /\ thr[t].pc = "disconnect_locked"
    /\ sig_connections_' = [sig_connections_ EXCEPT ![thr[t].sub] =
                               disconnect(@, connections_[thr[t].sub][thr[t].obs],
                                          Strong(connections_, held))]
    /\ sig_mtx' = [sig_mtx EXCEPT ![thr[t].sub] = NoThread]
    /\ thr' = [thr EXCEPT ![t].pc = "unreg_erase"]
    /\ UNCHANGED <<destroyed, dateVars, connections_, observables_, value_, alive,
                   held, obs_mtx, op, calls>>

\* UnregisterErase leaving the entry in the registry
UnregisterErase_keep(t) ==
    /\ thr[t].pc = "unreg_erase"
    /\ obs_mtx' = [obs_mtx EXCEPT ![thr[t].sub] = NoThread]
    /\ thr' = [thr EXCEPT ![t].pc = AfterUnregister(t)]
    /\ UNCHANGED <<destroyed, dateVars, connections_, sig_connections_, observables_,
                   value_, alive, held, sig_mtx, op, calls>>

\* unregisterObserver, connections_.erase(it), and the release of
\* Observable::mtx_
UnregisterErase(t) ==
    /\ thr[t].pc = "unreg_erase"
    /\ connections_' = [connections_ EXCEPT ![thr[t].sub][thr[t].obs] = Null]
    /\ obs_mtx' = [obs_mtx EXCEPT ![thr[t].sub] = NoThread]
    /\ thr' = [thr EXCEPT ![t].pc = AfterUnregister(t)]
    /\ UNCHANGED <<destroyed, dateVars, sig_connections_, observables_, value_,
                   alive, held, sig_mtx, op, calls>>

\* unregisterWith: observables_.erase(&observable)
UnregisterTrack(t) ==
    /\ thr[t].pc = "unreg_track"
    /\ observables_' = [observables_ EXCEPT ![thr[t].obs] = @ \ {thr[t].sub}]
    /\ thr' = [thr EXCEPT ![t] = IdleThread]
    /\ UNCHANGED <<destroyed, dateVars, connections_, sig_connections_, value_, alive,
                   held, sig_mtx, obs_mtx, op, calls>>

\* the steps of a thread inside registerWith or unregisterWith
MutateStep(t) ==
    \/ RegistryLock(t)
    \/ RegisterFind(t)
    \/ SignalLock(t)
    \/ ConnectPush(t)
    \/ RegisterStore(t)
    \/ RegisterTrack(t)
    \/ UnregisterFind(t)
    \/ DisconnectRemove(t)
    \/ UnregisterErase(t)
    \/ UnregisterTrack(t)

NextConc ==
    \/ \E t \in Notifiers, v \in Values :
          NotifyBegin(t, subject, v, Standings(subject))
    \/ \E t \in Notifiers : EmitLock(t)
    \/ \E t \in Notifiers : EmitVisit(t)
    \/ \E t \in Notifiers : EmitUnlock(t, "idle")
    \/ \E t \in Mutators, o \in Observers : MutateBegin(t, "register", o)
    \/ \E t \in Mutators, o \in Observers : MutateBegin(t, "unregister", o)
    \/ \E t \in Mutators : MutateStep(t)

SpecConc == Init /\ [][NextConc]_vars

\* ---------------------------------------------------------------------
\* One thread notifying an Observable while two others register, unregister
\* and destroy observers. Observer's members are not synchronised, so each
\* Observer object is used by one thread only.
\* ---------------------------------------------------------------------
Notifier == "t1"
Owners == Threads \ {Notifier}

\* the thread that uses (and destroys) observer o
Owner(o) == IF o % 2 = 1 THEN "t2" ELSE "t3"

\* DestroyBegin visiting only the Observables that still exist
DestroyBegin_live(t, o) ==
    /\ thr[t].pc = "idle"
    /\ alive[o]
    /\ alive' = [alive EXCEPT ![o] = FALSE]
    /\ thr' = [thr EXCEPT ![t].pc = "dtor_loop", ![t].call = "destroy",
                          ![t].obs = o, ![t].todo = observables_[o] \ destroyed]
    /\ UNCHANGED <<destroyed, dateVars, connections_, sig_connections_, observables_,
                   value_, held, sig_mtx, obs_mtx, op, calls>>

\* Observer::~Observer entered by a thread: from now on the object is being
\* destroyed; the loop will visit the Observables of observables_
DestroyBegin(t, o) ==
    /\ thr[t].pc = "idle"
    /\ alive[o]
    /\ alive' = [alive EXCEPT ![o] = FALSE]
    /\ thr' = [thr EXCEPT ![t].pc = "dtor_loop", ![t].call = "destroy",
                          ![t].obs = o, ![t].todo = observables_[o]]
    /\ UNCHANGED <<destroyed, dateVars, connections_, sig_connections_, observables_,
                   value_, held, sig_mtx, obs_mtx, op, calls>>

\* ~Observer, the loop: observable->unregisterObserver(this) for the next
\* Observable of observables_
DestroyNext(t) ==
    /\ thr[t].pc = "dtor_loop"
    /\ \E observable \in thr[t].todo :
          thr' = [thr EXCEPT ![t].pc = "unregister", ![t].sub = observable,
                             ![t].todo = @ \ {observable}]
    /\ UNCHANGED <<destroyed, dateVars, connections_, sig_connections_, observables_,
                   value_, alive, held, sig_mtx, obs_mtx, op, calls>>

\* ~Observer, after the loop: observables_ is destroyed with the object
DestroyEnd(t) ==
    /\ thr[t].pc = "dtor_loop"
    /\ thr[t].todo = {}
    /\ observables_' = [observables_ EXCEPT ![thr[t].obs] = {}]
    /\ thr' = [thr EXCEPT ![t] = IdleThread]
    /\ UNCHANGED <<destroyed, dateVars, connections_, sig_connections_, value_, alive,
                   held, sig_mtx, obs_mtx, op, calls>>

\* a thread calls one of the public operations
Call(t) ==
    \/ t = Notifier /\ NotifyBegin(t, subject, value_[subject], <<>>)
    \/ \E o \in Observers : Owner(o) = t /\ MutateBegin(t, "register", o)
    \/ \E o \in Observers : Owner(o) = t /\ MutateBegin(t, "unregister", o)
    \/ \E o \in Observers : Owner(o) = t /\ DestroyBegin(t, o)

\* a thread takes a mutex: std::lock_guard lock(mtx_)
Acquire(t) ==
    \/ EmitLock(t)
    \/ RegistryLock(t)
    \/ SignalLock(t)

\* a thread inside an operation takes a step that waits for nothing
Proceed(t) ==
    \/ EmitVisit(t)
    \/ EmitUnlock(t, "idle")
    \/ RegisterFind(t)
    \/ ConnectPush(t)
    \/ RegisterStore(t)
    \/ RegisterTrack(t)
    \/ UnregisterFind(t)
    \/ DisconnectRemove(t)
    \/ UnregisterErase(t)
    \/ UnregisterTrack(t)
    \/ DestroyNext(t)
    \/ DestroyEnd(t)

NextLocks == \E t \in Threads : Call(t) \/ Acquire(t) \/ Proceed(t)

\* every thread keeps running, and a thread waiting for a mutex that is
\* released again and again gets it in the end
SpecLocks ==
    /\ Init
    /\ [][NextLocks]_vars
    /\ \A t \in Threads : WF_vars(Proceed(t)) /\ SF_vars(Acquire(t))

\* ---------------------------------------------------------------------
\* One caller working with two Date objects, date and rhs
\* ---------------------------------------------------------------------
InputYears == BaseYear..(BaseYear + NumValues - 1)
InputMonths == {0, 1, 2, 3, 12, 13}
InputDays == {0, 1, 28, 29, 30, 31, 32}
Units == {"Years", "Months", "Days"}
Amounts == {1, 2}

\* the += operator of a unit
PlusAssign(object, unit, n) ==
    CASE unit = "Years"  -> PlusAssignYears(object, n)
      [] unit = "Months" -> PlusAssignMonths(object, n)
      [] unit = "Days"   -> PlusAssignDays(object, n)

\* the -= operator of a unit
MinusAssign(object, unit, n) ==
    CASE unit = "Years"  -> MinusAssignYears(object, n)
      [] unit = "Months" -> MinusAssignMonths(object, n)
      [] unit = "Days"   -> MinusAssignDays(object, n)

\* Date::operator+ / operator-, once past the copy: Date date = *this (the copy
\* constructor), date += n or date -= n, return date
Plus(object, unit, n) == PlusAssign(Assign(NoDate, object), unit, n)
Minus(object, unit, n) == MinusAssign(Assign(NoDate, object), unit, n)

\* how a binary operator can end. operator+ and operator- for Months and Days
\* lock mtx_ and then copy *this, and the copy (operator=) locks rhs.mtx_, the
\* mutex the thread already owns: undefined behaviour of std::mutex. A build
\* never returns from that lock, or has it throw std::system_error, or lets
\* the call go on. The operators for Years take no lock themselves.
Relock == {"blocks", "throws", "returns"}

Fates(unit) == IF unit = "Years" THEN {"returns"} ELSE Relock

\* the caller is not stuck inside a call
DateRunning == op.kind # "blocks"

\* Date::Date(Year, Month, Day) for a new object
DateConstruct(y, m, d) ==
    /\ DateRunning
    /\ date = NoDate
    /\ IF ok([year |-> y, month |-> m, day |-> d])
       THEN /\ date' = Date(y, m, d)
            /\ op' = Op("Date", 0, "", [NoDate EXCEPT !.year = y, !.month = m,
                                                      !.day = d], "constructed")
       ELSE /\ date' = date
            /\ op' = Op("Date", 0, "", [NoDate EXCEPT !.year = y, !.month = m,
                                                      !.day = d], "throws")
    /\ UNCHANGED <<destroyed, rhs, steps, connections_, sig_connections_,
                   observables_, value_, alive, held, sig_mtx, obs_mtx, thr, calls>>

\* Date::Date(Year, Month, Day) for a second object, from a real date
RhsConstruct(y, m, d) ==
    /\ DateRunning
    /\ rhs = NoDate
    /\ ok([year |-> y, month |-> m, day |-> d])
    /\ rhs' = Date(y, m, d)
    /\ op' = Op("Date rhs", 0, "", NoDate, "constructed")
    /\ UNCHANGED <<destroyed, date, steps, connections_, sig_connections_,
                   observables_, value_, alive, held, sig_mtx, obs_mtx, thr, calls>>

\* Date::Date(const Date&): the second object made as a copy of the first
DateCopy ==
    /\ DateRunning
    /\ date # NoDate
    /\ rhs = NoDate
    /\ rhs' = Assign(NoDate, date)
    /\ op' = Op("Date(const Date&)", 0, "", NoDate, "constructed")
    /\ UNCHANGED <<destroyed, date, steps, connections_, sig_connections_,
                   observables_, value_, alive, held, sig_mtx, obs_mtx, thr, calls>>

\* Date::operator=: date = rhs
DateAssign ==
    /\ DateRunning
    /\ date # NoDate
    /\ rhs # NoDate
    /\ date' = Assign(date, rhs)
    /\ op' = Op("=", 0, "", NoDate, "returns")
    /\ UNCHANGED <<destroyed, rhs, steps, connections_, sig_connections_,
                   observables_, value_, alive, held, sig_mtx, obs_mtx, thr, calls>>

\* Date::operator+=: date += n
DatePlusAssign(unit, n) ==
    /\ DateRunning
    /\ date # NoDate
    /\ steps < MaxSteps
    /\ date' = PlusAssign(date, unit, n)
    /\ steps' = steps + 1
    /\ op' = Op("+=", 0, "", NoDate, "returns")
    /\ UNCHANGED <<destroyed, rhs, connections_, sig_connections_,
                   observables_, value_, alive, held, sig_mtx, obs_mtx, thr, calls>>

\* Date::operator-=: date -= n
DateMinusAssign(unit, n) ==
    /\ DateRunning
    /\ date # NoDate
    /\ steps < MaxSteps
    /\ date' = MinusAssign(date, unit, n)
    /\ steps' = steps + 1
    /\ op' = Op("-=", 0, "", NoDate, "returns")
    /\ UNCHANGED <<destroyed, rhs, connections_, sig_connections_,
                   observables_, value_, alive, held, sig_mtx, obs_mtx, thr, calls>>

\* Date::operator+: Date rhs = date + n
DatePlus(unit, n, fate) ==
    /\ DateRunning
    /\ date # NoDate
    /\ rhs = NoDate
    /\ fate \in Fates(unit)
    /\ rhs' = IF fate = "returns" THEN Plus(date, unit, n) ELSE rhs
    /\ op' = Op("+", 0, "", NoDate, fate)
    /\ UNCHANGED <<destroyed, date, steps, connections_, sig_connections_,
                   observables_, value_, alive, held, sig_mtx, obs_mtx, thr, calls>>

\* Date::operator-: Date rhs = date - n
DateMinus(unit, n, fate) ==
    /\ DateRunning
    /\ date # NoDate
    /\ rhs = NoDate
    /\ fate \in Fates(unit)
    /\ rhs' = IF fate = "returns" THEN Minus(date, unit, n) ELSE rhs
    /\ op' = Op("-", 0, "", NoDate, fate)
    /\ UNCHANGED <<destroyed, date, steps, connections_, sig_connections_,
                   observables_, value_, alive, held, sig_mtx, obs_mtx, thr, calls>>

\* Date::~Date: both objects go out of scope
DateDestroy ==
    /\ DateRunning
    /\ date # NoDate
    /\ date' = NoDate
    /\ rhs' = NoDate
    /\ steps' = 0
    /\ op' = Op("~Date", 0, "", NoDate, "")
    /\ UNCHANGED <<destroyed, connections_, sig_connections_,
                   observables_, value_, alive, held, sig_mtx, obs_mtx, thr, calls>>

NextDate ==
    \/ \E y \in InputYears, m \in InputMonths, d \in InputDays : DateConstruct(y, m, d)
    \/ \E y \in InputYears, m \in InputMonths, d \in InputDays : RhsConstruct(y, m, d)
    \/ DateCopy
    \/ DateAssign
    \/ \E unit \in Units, n \in Amounts : DatePlusAssign(unit, n)
    \/ \E unit \in Units, n \in Amounts : DateMinusAssign(unit, n)
    \/ \E unit \in Units, n \in Amounts, fate \in Relock : DatePlus(unit, n, fate)
    \/ \E unit \in Units, n \in Amounts, fate \in Relock : DateMinus(unit, n, fate)
    \/ DateDestroy

SpecDate == Init /\ [][NextDate]_vars

\* ---------------------------------------------------------------------
\* Slots that call back into the Observable they are notified by: onNotify,
\* running inside Signal::emit with Signal::mtx_ held, calls notifyObservers,
\* registerWith or unregisterWith on the same Observable
\* ---------------------------------------------------------------------

\* the slot Signal::emit is about to invoke for the thread, Null when the next
\* entry does not resolve (or there is none)
SlotRunning(t) ==
    IF thr[t].pc = "emit_walk" /\ thr[t].rest # <<>>
    THEN WeakLock(Head(thr[t].rest), Strong(connections_, held))
    ELSE Null

\* onNotify calls notifyObservers of the Observable notifying it: Signal::emit
\* is entered again and reaches its lock_guard on the mutex the thread owns
ReenterNotify(t) ==
    /\ SlotRunning(t) # Null
    /\ thr' = [thr EXCEPT ![t].pc = "relock"]
    /\ UNCHANGED <<destroyed, dateVars, connections_, sig_connections_, observables_,
                   value_, alive, held, sig_mtx, obs_mtx, op, calls>>

\* onNotify calls a.registerWith or a.unregisterWith on the Observable
\* notifying it
ReenterCall(t, call, a) ==
    /\ SlotRunning(t) # Null
    /\ alive[a]
    /\ thr' = [thr EXCEPT ![t].pc = IF call = "register" THEN "re_register"
                                    ELSE "re_unregister",
                          ![t].call = call, ![t].obs = a]
    /\ UNCHANGED <<destroyed, dateVars, connections_, sig_connections_, observables_,
                   value_, alive, held, sig_mtx, obs_mtx, op, calls>>

\* ReenterRegistry entering signal_.connect / disconnect without
\* Observable::mtx_
ReenterRegistry_unlocked(t) ==
    /\ thr[t].pc \in {"re_register", "re_unregister"}
    /\ obs_mtx[thr[t].sub] = NoThread
    /\ IF thr[t].pc = "re_register" /\ connections_[thr[t].sub][thr[t].obs] = Null
       THEN /\ FreshConns(thr[t].sub, thr[t].obs) # {}
            /\ LET connection == make_shared(thr[t].sub, thr[t].obs)
               IN  /\ held' = held \cup {connection}
                   /\ thr' = [thr EXCEPT ![t].pc = "relock", ![t].conn = connection]
            /\ UNCHANGED <<obs_mtx, observables_>>
       ELSE IF thr[t].pc = "re_unregister"
                  /\ connections_[thr[t].sub][thr[t].obs] # Null
            THEN /\ thr' = [thr EXCEPT ![t].pc = "relock"]
                 /\ UNCHANGED <<obs_mtx, held, observables_>>
            ELSE /\ observables_' = [observables_ EXCEPT ![thr[t].obs] =
                                        IF thr[t].pc = "re_register"
                                        THEN @ \cup {thr[t].sub}
                                        ELSE @ \ {thr[t].sub}]
                 /\ thr' = [thr EXCEPT ![t].pc = "emit_walk", ![t].call = "notify",
                                       ![t].obs = 0]
                 /\ UNCHANGED <<obs_mtx, held>>
    /\ UNCHANGED <<destroyed, dateVars, connections_, sig_connections_, value_, alive,
                   sig_mtx, op, calls>>

\* the nested registerObserver / unregisterObserver: lock_guard on
\* Observable::mtx_ and connections_.find(observer). A register of an
\* unregistered observer enters signal_.connect (make_shared, then the
\* lock_guard on Signal::mtx_), an unregister of a registered one enters
\* signal_.disconnect (the lock_guard on Signal::mtx_), both with
\* Observable::mtx_ held; any other call returns to the slot, after
\* registerWith's insert or unregisterWith's erase
ReenterRegistry(t) ==
    /\ thr[t].pc \in {"re_register", "re_unregister"}
    /\ obs_mtx[thr[t].sub] = NoThread
    /\ IF thr[t].pc = "re_register" /\ connections_[thr[t].sub][thr[t].obs] = Null
       THEN /\ FreshConns(thr[t].sub, thr[t].obs) # {}
            /\ LET connection == make_shared(thr[t].sub, thr[t].obs)
               IN  /\ held' = held \cup {connection}
                   /\ thr' = [thr EXCEPT ![t].pc = "relock", ![t].conn = connection]
            /\ obs_mtx' = [obs_mtx EXCEPT ![thr[t].sub] = t]
            /\ UNCHANGED observables_
       ELSE IF thr[t].pc = "re_unregister"
                  /\ connections_[thr[t].sub][thr[t].obs] # Null
            THEN /\ thr' = [thr EXCEPT ![t].pc = "relock"]
                 /\ obs_mtx' = [obs_mtx EXCEPT ![thr[t].sub] = t]
                 /\ UNCHANGED <<held, observables_>>
            ELSE /\ observables_' = [observables_ EXCEPT ![thr[t].obs] =
                                        IF thr[t].pc = "re_register"
                                        THEN @ \cup {thr[t].sub}
                                        ELSE @ \ {thr[t].sub}]
                 /\ thr' = [thr EXCEPT ![t].pc = "emit_walk", ![t].call = "notify",
                                       ![t].obs = 0]
                 /\ UNCHANGED <<obs_mtx, held>>
    /\ UNCHANGED <<destroyed, dateVars, connections_, sig_connections_, value_, alive,
                   sig_mtx, op, calls>>

\* the mutexes a thread owns
Owned(mtx, t) == {s \in Observables : mtx[s] = t}

\* std::lock_guard lock(mtx_) on the Signal::mtx_ the thread already owns:
\* undefined for std::mutex. The thread blocks for good; or lock() throws
\* std::system_error, which unwinds the nested call, the slot and emit (the
\* local handle of connect and every lock_guard are destroyed, nothing was
\* removed from the list); or the lock is granted and the nested call works on
\* the list under the iterators of the outer remove_if, which is not followed
\* further
Relocked(t, fate) ==
    /\ thr[t].pc = "relock"
    /\ CASE fate = "blocks" ->
              /\ thr' = [thr EXCEPT ![t].pc = "blocked"]
              /\ UNCHANGED <<held, sig_mtx, obs_mtx>>
         [] fate = "throws" ->
              /\ held' = held \ {thr[t].conn}
              /\ sig_mtx' = [s \in Observables |->
                                IF s \in Owned(sig_mtx, t) THEN NoThread ELSE sig_mtx[s]]
              /\ obs_mtx' = [s \in Observables |->
                                IF s \in Owned(obs_mtx, t) THEN NoThread ELSE obs_mtx[s]]
              /\ thr' = [thr EXCEPT ![t] = IdleThread]
         [] OTHER ->
              /\ thr' = [thr EXCEPT ![t].pc = "reentered"]
              /\ UNCHANGED <<held, sig_mtx, obs_mtx>>
    /\ UNCHANGED <<destroyed, dateVars, connections_, sig_connections_, observables_,
                   value_, alive, op, calls>>

NextReentrant ==
    \/ \E t \in Notifiers : NotifyBegin(t, subject, value_[subject], <<>>)
    \/ \E t \in Notifiers : EmitLock(t)
    \/ \E t \in Notifiers : EmitVisit(t)
    \/ \E t \in Notifiers : EmitUnlock(t, "idle")
    \/ \E t \in Mutators, o \in Observers : MutateBegin(t, "register", o)
    \/ \E t \in Mutators, o \in Observers : MutateBegin(t, "unregister", o)
    \/ \E t \in Mutators : MutateStep(t)
    \/ \E t \in Notifiers : ReenterNotify(t)
    \/ \E t \in Notifiers, a \in Observers : ReenterCall(t, "register", a)
    \/ \E t \in Notifiers, a \in Observers : ReenterCall(t, "unregister", a)
    \/ \E t \in Notifiers : ReenterRegistry(t)
    \/ \E t \in Notifiers, fate \in Relock : Relocked(t, fate)

SpecReentrant == Init /\ [][NextReentrant]_vars

\* ---------------------------------------------------------------------
\* An Observable destroyed before the Observers registered with it: one
\* thread registers, unregisters and destroys Observers, and destroys the
\* Observable
\* ---------------------------------------------------------------------
Caller == "t1"

\* ~Observable (implicit: the class declares no destructor): connections_,
\* with the strong handles, and signal_, with its list, are destroyed; no
\* Observer is told, so observables_ of every Observer stays as it is
DestroyObservable(s) ==
    /\ thr[Caller].pc = "idle"
    /\ s \notin destroyed
    /\ destroyed' = destroyed \cup {s}
    /\ connections_' = [connections_ EXCEPT ![s] = [o \in Observers |-> Null]]
    /\ sig_connections_' = [sig_connections_ EXCEPT ![s] = <<>>]
    /\ UNCHANGED <<dateVars, observables_, value_, alive, held, sig_mtx, obs_mtx,
                   thr, op, calls>>

\* the thread is calling unregisterObserver on an Observable that has been
\* destroyed (through the pointer kept in observables_, or the reference
\* passed to unregisterWith)
Dangling(t) == thr[t].pc = "unregister" /\ thr[t].sub \in destroyed

\* a call on the destroyed Observable is undefined: it runs over the memory
\* the object left, finding no entry (the steps of unregisterObserver), or it
\* faults and the program ends here
DanglingFault(t) ==
    /\ Dangling(t)
    /\ thr' = [thr EXCEPT ![t].pc = "faulted"]
    /\ UNCHANGED <<destroyed, dateVars, connections_, sig_connections_, observables_,
                   value_, alive, held, sig_mtx, obs_mtx, op, calls>>

NextLife ==
    \/ \E o \in Observers :
          subject \notin destroyed /\ MutateBegin(Caller, "register", o)
    \/ \E o \in Observers : MutateBegin(Caller, "unregister", o)
    \/ \E o \in Observers : DestroyBegin(Caller, o)
    \/ MutateStep(Caller)
    \/ DestroyNext(Caller)
    \/ DestroyEnd(Caller)
    \/ DestroyObservable(subject)
    \/ DanglingFault(Caller)

SpecLife == Init /\ [][NextLife]_vars

\* ---------------------------------------------------------------------
\* Two threads calling registerWith and unregisterWith on the same Observers
\* and the same Observable
\* ---------------------------------------------------------------------
Racers == {"t2", "t3"}

\* the thread is at observables_.insert or observables_.erase while another
\* thread is at one of them on the same Observer
TrackRacing(t) ==
    /\ thr[t].pc \in {"reg_track", "unreg_track"}
    /\ \E u \in Threads \ {t} : /\ thr[u].pc \in {"reg_track", "unreg_track"}
                                /\ thr[u].obs = thr[t].obs

\* observables_.insert / erase overlapping another thread's insert or erase on
\* the same std::set, which nothing orders (a data race): the element is in
\* the set or not afterwards, whatever this thread meant to do
RaceTrack(t, present) ==
    /\ TrackRacing(t)
    /\ observables_' = [observables_ EXCEPT ![thr[t].obs] =
                           IF present THEN @ \cup {thr[t].sub} ELSE @ \ {thr[t].sub}]
    /\ thr' = [thr EXCEPT ![t] = IdleThread]
    /\ UNCHANGED <<destroyed, dateVars, connections_, sig_connections_, value_, alive,
                   held, sig_mtx, obs_mtx, op, calls>>

NextRace ==
    \/ \E t \in Racers, o \in Observers : MutateBegin(t, "register", o)
    \/ \E t \in Racers, o \in Observers : MutateBegin(t, "unregister", o)
    \/ \E t \in Racers : MutateStep(t)
    \/ \E t \in Racers, present \in BOOLEAN : RaceTrack(t, present)

SpecRace == Init /\ [][NextRace]_vars

\* =====================================================================
\* Properties
\* =====================================================================

\* the pair (o, s) has a registry entry
Registered(o, s) == connections_[s][o] # Null

\* the positions of s's listener list whose slot forwards to o
EntriesFor(s, o) ==
    {i \in 1..Len(sig_connections_[s]) : sig_connections_[s][i].obs = o}

\* the invocations of o.onNotify in the last emission
CallsTo(o) == {i \in 1..Len(calls) : calls[i][1].obs = o}

\* the last operation was an emission on s (notify, or the one set makes)
Emitted(s) == op.name \in {"notify", "set"} /\ op.sub = s

\* S's Signal holds exactly one slot per registry entry (the registry's handle)
\* and none for an observer without an entry, and an emission on S invokes a
\* registered observer's onNotify exactly once
C1_OneSubscription ==
    \A o \in Observers, s \in Observables :
        /\ Cardinality(EntriesFor(s, o)) = (IF Registered(o, s) THEN 1 ELSE 0)
        /\ \A i \in EntriesFor(s, o) : sig_connections_[s][i] = connections_[s][o]
        /\ (Emitted(s) /\ Registered(o, s)) => Cardinality(CallsTo(o)) = 1

\* C1: a registerWith(S) by an observer S's registry already has an entry for
\* changes neither the registries nor the listener lists and leaves the entry
\* in place; in every state S's Signal holds exactly one slot per registry
\* entry, and an emission on S invokes a registered observer's onNotify
\* exactly once.
C1_RegisterTwiceOneSubscription ==
    /\ []C1_OneSubscription
    /\ [][(op'.name = "registerWith" /\ op'.kind = "again") =>
              /\ UNCHANGED <<connections_, sig_connections_>>
              /\ connections_'[op'.sub][op'.obs] # Null]_vars

C1_Witness ==
    /\ op.name = "registerWith"
    /\ op.kind = "again"
    /\ Cardinality(EntriesFor(op.sub, op.obs)) = 1
    /\ Len(sig_connections_[op.sub]) >= 2

\* C2: a notify(v) invokes every observer registered with that Observable
\* exactly once, with v, and no other observer; the number of invocations is
\* the number of registry entries.
C2_NotifyEachRegisteredOnce ==
    op.name = "notify" =>
        /\ \A o \in Observers :
              Cardinality(CallsTo(o)) = (IF Registered(o, op.sub) THEN 1 ELSE 0)
        /\ \A i \in 1..Len(calls) : calls[i][2] = op.arg
        /\ Len(calls) = Cardinality({o \in Observers : Registered(o, op.sub)})

C2_Witness ==
    /\ op.name = "notify"
    /\ Len(calls) >= 2

\* C3: a destroyed observer has no registry entry and no slot in any
\* Observable, and no later emission invokes it, although unregisterWith was
\* never called for it.
C3_DestroyedObserverGone ==
    \A o \in Observers :
        ~alive[o] =>
            /\ \A s \in Observables : ~Registered(o, s) /\ EntriesFor(s, o) = {}
            /\ CallsTo(o) = {}

C3_Witness ==
    /\ op.name = "destroy"
    /\ op.kind = "tracking"
    /\ ~alive[op.obs]
    /\ \E s \in Observables : sig_connections_[s] # <<>>

\* C4: unregisterWith(S) by an observer S's registry has no entry for changes
\* neither the registries, nor the Signals' listener lists, nor any tracked set.
C4_UnregisterUnknownIsNoOp ==
    [][(op'.name = "unregisterWith" /\ op'.kind = "absent") =>
           UNCHANGED <<connections_, sig_connections_, observables_, alive>>]_vars

C4_Witness ==
    /\ op.name = "unregisterWith"
    /\ op.kind = "absent"
    /\ \E p \in Observers : p # op.obs /\ Registered(p, op.sub)

\* the entries of s's listener list whose handle is still held, in their order
C5_Live(s) ==
    SelectSeq(sig_connections_[s], LAMBDA w : w \in Strong(connections_, held))

\* C5: emit(args) runs, with args, the slot of every entry whose handle is
\* still held, once per entry, and no other slot; afterwards the list holds
\* exactly the entries that were resolvable, in their order, and the other
\* Signal's list is untouched.
C5_EmitInvokesLiveAndPurges ==
    [][\A s \in Observables, v \in Values :
           (op'.name = "emit" /\ SignalEmit(s, v)) =>
               /\ sig_connections_'[s] = C5_Live(s)
               /\ Len(calls') = Len(C5_Live(s))
               /\ \A c \in Conn :
                     Cardinality({i \in 1..Len(calls') : calls'[i] = <<c, v>>})
                         = Cardinality({i \in 1..Len(C5_Live(s)) : C5_Live(s)[i] = c})
               /\ \A r \in Observables \ {s} :
                     sig_connections_'[r] = sig_connections_[r]]_vars

C5_Witness ==
    /\ op.name = "emit"
    /\ op.kind = "purged"
    /\ Len(calls) >= 2

\* C6: disconnect(c) with a handle c returned by connect removes the entries
\* whose handle is c and no other; with a handle that is not in this Signal's
\* list (already disconnected, or connected to the other Signal) it leaves the
\* list as it was.
C6_DisconnectRemovesOnlyItsEntry ==
    [][\A s \in Observables, c \in Conn :
           (op'.name = "disconnect" /\ c \in held /\ SignalDisconnect(s, c)) =>
               /\ sig_connections_'[s] =
                      SelectSeq(sig_connections_[s], LAMBDA w : w # c)
               /\ c \notin Entries(sig_connections_[s]) =>
                      sig_connections_'[s] = sig_connections_[s]
               /\ \A r \in Observables \ {s} :
                      sig_connections_'[r] = sig_connections_[r]]_vars

C6_Witness ==
    /\ op.name = "disconnect"
    /\ op.kind = "foreign"
    /\ \E s \in Observables : Entries(sig_connections_[s]) \ held # {}

C9_Step(o, s) ==
    /\ (op'.name = "registerWith" /\ op'.obs = o /\ op'.sub = s) => Registered(o, s)'
    /\ (op'.name = "unregisterWith" /\ op'.obs = o /\ op'.sub = s) => ~Registered(o, s)'
    /\ (op'.name = "destroy" /\ op'.obs = o) => ~Registered(o, s)'
    /\ (~Registered(o, s) /\ Registered(o, s)') =>
           (op'.name = "registerWith" /\ op'.obs = o /\ op'.sub = s)
    /\ (Registered(o, s) /\ ~Registered(o, s)') =>
           \/ (op'.name = "unregisterWith" /\ op'.obs = o /\ op'.sub = s)
           \/ (op'.name = "destroy" /\ op'.obs = o)
    /\ (op'.name \in {"notify", "set"} /\ op'.sub = s) =>
           Cardinality({i \in 1..Len(calls') : calls'[i][1].obs = o})
               = (IF Registered(o, s) THEN 1 ELSE 0)

\* C9: a pair starts Unregistered; it becomes Registered by registerWith and
\* by nothing else, Unregistered by unregisterWith or the observer's
\* destruction and by nothing else; an emission invokes the observer once if
\* the pair is Registered and not at all if it is Unregistered.
C9_PairLifecycle ==
    /\ \A o \in Observers, s \in Observables : ~Registered(o, s)
    /\ [][\A o \in Observers, s \in Observables : C9_Step(o, s)]_vars

C9_Witness ==
    /\ op.name = "unregisterWith"
    /\ op.kind = "present"
    /\ alive[op.obs]
    /\ ~Registered(op.obs, op.sub)

\* C8 as stated: when the three threads have finished, the stored value is
\* 1 January of 2024, 2025 or 2026.
C8_FinalWithinThreeYears ==
    MainJoined =>
        value_[observableDate] \in {Date(BaseYear + k, 1, 1) : k \in 1..3}

\* C8, amended: when the three threads have finished, the stored value is
\* 1 January of a year from 2024 to 2029 (a thread that reads after another
\* has stored adds its years to that thread's result).
C8_FinalWithinSixYears ==
    MainJoined =>
        value_[observableDate] \in {Date(BaseYear + k, 1, 1) : k \in 1..6}

C8_Witness ==
    /\ MainJoined
    /\ value_[observableDate] = Date(BaseYear + 6, 1, 1)

\* thread t is inside the traversal of an emission on s
Traversing(t, s) == thr[t].pc = "emit_walk" /\ thr[t].sub = s

\* one step seen from Signal s: a slot call excludes other traversals, and
\* a traversal in progress excludes changes of the list
C10_Step(s) ==
    /\ \A t \in Threads :
          (thr[t].pc = "emit_walk" /\ thr'[t].invoked # thr[t].invoked) =>
              \A u \in Threads \ {t} : ~Traversing(u, thr[t].sub)
    /\ (\E t \in Threads : Traversing(t, s) /\ thr'[t].pc = "emit_walk") =>
          sig_connections_'[s] = sig_connections_[s]

\* C10: a thread runs a slot of an emission on S only while no other thread
\* is inside an emission on S, and from the moment an emission's traversal
\* starts until it ends S's listener list does not change.
C10_EmissionsSerialized ==
    [][\A s \in Observables : C10_Step(s)]_vars

C10_Witness ==
    \E t \in Notifiers, u \in Notifiers, m \in Mutators :
        /\ t # u
        /\ Traversing(t, subject)
        /\ Len(thr[t].invoked) = 1 /\ Len(thr[t].rest) = 1
        /\ thr[u].pc = "emit_wait"
        /\ thr[m].pc \in {"reg_locked", "unreg_locked"}

\* the invocations of o.onNotify thread t's emission has made so far
InvokedBy(t, o) ==
    Cardinality({i \in 1..Len(thr[t].invoked) : thr[t].invoked[i][1].obs = o})

HoldsRegistry(t, s) == obs_mtx[s] = t
HoldsSignal(t, s) == sig_mtx[s] = t

\* one step of the lock discipline: a registry lock is taken only by a thread
\* holding no Signal lock, so a thread holding both took the registry lock
\* first
C12_Step(t) ==
    \A s \in Observables :
        (~HoldsRegistry(t, s) /\ HoldsRegistry(t, s)') =>
            \A r \in Observables : ~HoldsSignal(t, r) /\ ~HoldsSignal(t, r)'

\* no thread waits for a registry lock while it holds a Signal lock
C12_NoWaitUnderSignal ==
    \A t \in Threads :
        thr[t].pc \in {"register", "unregister"} =>
            \A r \in Observables : ~HoldsSignal(t, r)

LeapYear(y) == IF y % 400 = 0 THEN TRUE ELSE IF y % 100 = 0 THEN FALSE ELSE y % 4 = 0

DaysIn(y, m) ==
    CASE m \in {4, 6, 9, 11} -> 30
      [] m = 2 -> IF LeapYear(y) THEN 29 ELSE 28
      [] OTHER -> 31

RealDate(y, m, d) == m \in 1..12 /\ d \in 1..DaysIn(y, m)

RECURSIVE DaysBeforeMonth(_, _)
DaysBeforeMonth(y, m) ==
    IF m <= 1 THEN 0 ELSE DaysBeforeMonth(y, m - 1) + DaysIn(y, m - 1)

RECURSIVE DaysBeforeYear(_)
DaysBeforeYear(y) ==
    IF y <= 1970 THEN 0
    ELSE DaysBeforeYear(y - 1) + (IF LeapYear(y - 1) THEN 366 ELSE 365)

DayCount(y, m, d) == DaysBeforeYear(y) + DaysBeforeMonth(y, m) + d - 1

\* C13: Date(year, month, day) produces a Date holding that day exactly when
\* (year, month, day) is a real calendar date and fails otherwise, producing
\* no object; Date(2023,2,29) fails and Date(2024,2,29) succeeds.
C13_ConstructionChecksCalendar ==
    op.name = "Date" =>
        LET y == op.arg.year
            m == op.arg.month
            d == op.arg.day
        IN  /\ op.kind \in {"constructed", "throws"}
            /\ op.kind = "constructed" <=> RealDate(y, m, d)
            /\ op.kind = "constructed" =>
                   date.year = y /\ date.month = m /\ date.day = d
            /\ op.kind = "throws" => date = NoDate
            /\ (y = 2023 /\ m = 2 /\ d = 29) => op.kind = "throws"
            /\ (y = 2024 /\ m = 2 /\ d = 29) => op.kind = "constructed"

C13_Witness ==
    /\ op.name = "Date"
    /\ op.kind = "throws"
    /\ op.arg.year = 2023 /\ op.arg.month = 2 /\ op.arg.day = 29
    /\ date = NoDate

\* the date a number of months away from a date: the same day of the target
\* month when the month has it, the month's last day otherwise
MonthsAway(object, months) ==
    LET index == object.year * 12 + (object.month - 1) + months
        y == index \div 12
        m == (index % 12) + 1
    IN  [year |-> y, month |-> m,
         day |-> IF object.day <= DaysIn(y, m) THEN object.day ELSE DaysIn(y, m)]

\* object holds the calendar day ymd
Holds(object, ymd) ==
    object.year = ymd.year /\ object.month = ymd.month /\ object.day = ymd.day

\* the months a duration of a unit spans
InMonths(unit, n) == IF unit = "Years" THEN 12 * n ELSE n

\* C14 as stated: += , -=, + and - of a Months or Years duration on a valid
\* Date yield the same day of the target month, or its last day when the
\* month lacks that day; Date(2023,1,31) + Months(1) equals Date(2023,2,28)
\* and Date(2024,1,31) + Months(1) equals Date(2024,2,29).
C14_MonthArithmeticClamps ==
    [][\A unit \in {"Years", "Months"}, n \in Amounts :
           /\ DatePlusAssign(unit, n) =>
                  Holds(date', MonthsAway(date, InMonths(unit, n)))
           /\ DateMinusAssign(unit, n) =>
                  Holds(date', MonthsAway(date, 0 - InMonths(unit, n)))
           /\ \A fate \in Fates(unit) :
                  /\ DatePlus(unit, n, fate) =>
                         /\ fate = "returns"
                         /\ Holds(rhs', MonthsAway(date, InMonths(unit, n)))
                         /\ (Holds(date, Date(2023, 1, 31)) /\ unit = "Months" /\ n = 1)
                                => DateEq(rhs', Date(2023, 2, 28))
                         /\ (Holds(date, Date(2024, 1, 31)) /\ unit = "Months" /\ n = 1)
                                => DateEq(rhs', Date(2024, 2, 29))
                  /\ DateMinus(unit, n, fate) =>
                         /\ fate = "returns"
                         /\ Holds(rhs', MonthsAway(date, 0 - InMonths(unit, n)))]_vars

\* every Date object's serial number is the day count of the day it holds
C15_SerialOf(object) ==
    object # NoDate =>
        /\ RealDate(object.year, object.month, object.day)
        /\ object.serial_number_ = DayCount(object.year, object.month, object.day)

\* the calendar order of two days
CalendarBefore(a, b) ==
    \/ a.year < b.year
    \/ a.year = b.year /\ a.month < b.month
    \/ a.year = b.year /\ a.month = b.month /\ a.day < b.day

\* C15: after construction, copy, assignment and every += / -=, a Date's
\* serial number is the day count since the epoch of the day it holds; the
\* comparison operators order two Dates as the calendar does, exactly one of
\* <, ==, > holding, and Dates holding the same day compare equal.
C15_SerialMatchesCalendar ==
    /\ C15_SerialOf(date)
    /\ C15_SerialOf(rhs)
    /\ (date # NoDate /\ rhs # NoDate) =>
           /\ DateEq(date, rhs) <=> Holds(date, rhs)
           /\ DateLt(date, rhs) <=> CalendarBefore(date, rhs)
           /\ DateGt(date, rhs) <=> CalendarBefore(rhs, date)
           /\ DateLe(date, rhs) <=> ~CalendarBefore(rhs, date)
           /\ DateGe(date, rhs) <=> ~CalendarBefore(date, rhs)
           /\ DateEq(date, rhs) <=> DateEq(rhs, date)
           /\ DateLt(date, rhs) <=> DateGt(rhs, date)

C15_Witness ==
    /\ op.name = "="
    /\ steps > 0
    /\ DateEq(date, rhs)
    /\ date.month = 2 /\ date.day = 29

\* C16: set(v) notifies observers only when the value changes: a call set(v)
\* with v equal to the stored value invokes no observer (what the doc comments
\* of ObservableValue and of set promise).
C16_SetNotifiesOnlyOnChange ==
    (op.name = "set" /\ op.kind = "same") => calls = <<>>

\* C17: after any sequence of registerWith and unregisterWith calls made by
\* one caller, the tracked set and the registry mirror each other: Observable
\* s is in observer o's observables_ exactly when the registry of s holds an
\* entry for o.
C17_TrackedMirrorsRegistry ==
    \A o \in Observers, s \in Observables :
        (s \in observables_[o]) <=> Registered(o, s)

\* an unregisterWith has removed a pair while the same observer stays
\* registered with the other Observable and another observer with this one
C17_Witness ==
    /\ op.name = "unregisterWith"
    /\ op.kind = "present"
    /\ observables_[op.obs] = Observables \ {op.sub}
    /\ \E o \in Observers \ {op.obs} : op.sub \in observables_[o]

\* a thread is inside registerObserver or unregisterObserver of Observable s
C18_InProgress(s) ==
    \E t \in Threads : /\ thr[t].sub = s
                       /\ thr[t].pc \in Mutating \ {"reg_track", "unreg_track"}

\* C18: whenever no register or unregister on an Observable is in progress,
\* its registry is the only strong holder of each Connection, and the Signal's
\* list holds exactly one resolvable weak entry per registry entry and no
\* unresolvable one: a Connection is live exactly when its registry entry
\* exists, after any register, unregister and notify.
C18_RegistrySoleHolder ==
    \A s \in Observables :
        ~C18_InProgress(s) =>
            /\ {c \in held : c.sig = s} = {}
            /\ \A o \in Observers :
                  Registered(o, s) =>
                      Cardinality({i \in 1..Len(sig_connections_[s]) :
                                      sig_connections_[s][i] = connections_[s][o]}) = 1
            /\ \A i \in 1..Len(sig_connections_[s]) :
                  LET connection == WeakLock(sig_connections_[s][i],
                                             Strong(connections_, held))
                  IN  /\ connection # Null
                      /\ connections_[s][connection.obs] = connection
            /\ Len(sig_connections_[s]) =
                  Cardinality({o \in Observers : Registered(o, s)})

\* an unregisterObserver has just returned, another observer is still
\* registered, and a notify is walking the list
C18_Witness ==
    /\ ~C18_InProgress(subject)
    /\ \E t \in Threads : /\ thr[t].pc = "unreg_track"
                          /\ thr[t].sub = subject
                          /\ ~Registered(thr[t].obs, subject)
    /\ \E o \in Observers : Registered(o, subject)
    /\ \E u \in Notifiers : thr[u].pc = "emit_walk"

\* the thread stands at (or has blocked in) a lock of a Signal::mtx_ it owns
AtRelock(t) == thr[t].pc \in {"relock", "blocked"}

\* the nested call of the thread, made in state one, reaches Signal::emit,
\* Signal::connect or Signal::disconnect
ReachesSignal(t) ==
    \/ thr[t].pc = "re_register" /\ connections_[thr[t].sub][thr[t].obs] = Null
    \/ thr[t].pc = "re_unregister" /\ connections_[thr[t].sub][thr[t].obs] # Null

\* C19 as stated: a slot calling S.notify, or unregisterWith(S) of a registered
\* observer or registerWith(S) of an unregistered one, blocks its thread
\* forever on the Signal's lock; the notify never returns and the lock (and
\* the registry lock if taken) is never released.
C19_ReentryBlocksForever ==
    [][\A t \in Threads :
          AtRelock(t) =>
              /\ AtRelock(t)'
              /\ sig_mtx'[thr[t].sub] = t
              /\ obs_mtx[thr[t].sub] = t => obs_mtx'[thr[t].sub] = t]_vars

\* C19 amended: such a call brings the thread to a lock of the Signal's mutex
\* which it already owns, holding the registry lock as well when the call is
\* registerWith or unregisterWith; any other nested registerWith or
\* unregisterWith returns to the slot. Where that lock blocks, the thread
\* stays blocked and neither lock is released; the lock may also throw, which
\* ends the notify and releases both locks.
C19_ReentryRelocksOwnedMutex ==
    /\ [](\A t \in Threads :
            AtRelock(t) =>
                /\ sig_mtx[thr[t].sub] = t
                /\ thr[t].call \in {"register", "unregister"}
                      <=> obs_mtx[thr[t].sub] = t)
    /\ [][\A t \in Threads :
            /\ (thr[t].pc \in {"re_register", "re_unregister"}
                   /\ thr'[t].pc # thr[t].pc) =>
                  thr'[t].pc = (IF ReachesSignal(t) THEN "relock" ELSE "emit_walk")
            /\ (thr[t].pc = "emit_walk" /\ AtRelock(t)') =>
                  (thr'[t].call = "notify" /\ thr'[t].pc = "relock")
            /\ thr[t].pc = "blocked" =>
                  /\ thr'[t] = thr[t]
                  /\ sig_mtx'[thr[t].sub] = t
                  /\ obs_mtx[thr[t].sub] = t => obs_mtx'[thr[t].sub] = t
            /\ (thr[t].pc = "relock" /\ thr'[t].pc = "idle") =>
                  /\ Owned(sig_mtx', t) = {}
                  /\ Owned(obs_mtx', t) = {}
                  /\ held' = held \ {thr[t].conn}
                  /\ sig_connections_' = sig_connections_]_vars

\* a slot's registerWith of an unregistered observer has blocked with both
\* locks held, and the thread registering from outside waits for the registry
C19_Witness ==
    \E t \in Notifiers :
        /\ thr[t].pc = "blocked"
        /\ thr[t].call = "register"
        /\ obs_mtx[subject] = t
        /\ sig_mtx[subject] = t
        /\ \E u \in Mutators : thr[u].pc \in {"register", "unregister"}
        /\ \E u \in Notifiers : thr[u].pc = "emit_wait"

\* C20: destroying an Observable while an Observer is registered with it
\* removes nothing from the Observer's tracked set; the set keeps referencing
\* the destroyed Observable until the Observer's own unregisterWith or
\* destruction, and these call unregisterObserver on the destroyed
\* Observable: ~Observer visits every Observable of the tracked set, destroyed
\* or not, before it ends.
C20_DestroyedObservableStaysTracked ==
    [][/\ destroyed' # destroyed => observables_' = observables_
       /\ \A o \in Observers, s \in destroyed :
             (s \in observables_[o] /\ s \notin observables_'[o]) =>
                 /\ thr[Caller].obs = o
                 /\ \/ thr[Caller].pc = "unreg_track" /\ thr[Caller].sub = s
                    \/ thr[Caller].pc = "dtor_loop" /\ thr[Caller].todo = {}
       /\ (thr[Caller].pc = "idle" /\ thr'[Caller].call = "unregister") =>
             thr'[Caller].pc = "unregister"
       /\ (thr[Caller].pc = "idle" /\ thr'[Caller].call = "destroy") =>
             thr'[Caller].todo = observables_[thr'[Caller].obs]
       /\ (thr[Caller].pc = "dtor_loop" /\ thr'[Caller].pc # "dtor_loop") =>
             IF thr[Caller].todo = {}
             THEN thr'[Caller].pc = "idle"
             ELSE /\ thr'[Caller].pc = "unregister"
                  /\ thr'[Caller].sub \in thr[Caller].todo
                  /\ thr'[Caller].todo = thr[Caller].todo \ {thr'[Caller].sub}]_vars

\* ~Observer of an Observer still tracking the destroyed Observable is calling
\* unregisterObserver on it
C20_Witness ==
    /\ Dangling(Caller)
    /\ thr[Caller].call = "destroy"
    /\ thr[Caller].sub \in observables_[thr[Caller].obs]
    /\ \E o \in Observers : alive[o] /\ subject \in observables_[o]

\* C24: each of Date's binary operators (+ and - with Years, Months and Days),
\* called on a valid Date no other thread is using, terminates and returns a
\* result: the thread never locks a Date's mutex it already owns.
C24_BinaryOperatorsReturn ==
    op.name \in {"+", "-"} => (op.kind = "returns" /\ rhs # NoDate)

\* C25 as stated: disconnect(h) removes from the list only the entries whose
\* strong handle is h, for every handle h, an empty one included; every other
\* entry, the ones whose handle was dropped among them, stays in its place
\* until the next emit.
C25_DisconnectRemovesOnlyHandle ==
    [][\A s \in Observables, c \in held \cup {Null} :
           (op'.name = "disconnect" /\ SignalDisconnect(s, c)) =>
               /\ sig_connections_'[s] =
                      SelectSeq(sig_connections_[s], LAMBDA w : w # c)
               /\ \A r \in Observables \ {s} :
                      sig_connections_'[r] = sig_connections_[r]]_vars

\* C25 amended: disconnect(h) with a handle h that still refers to a slot
\* removes the entries whose handle is h and leaves every other entry, the
\* expired ones included, in its place; disconnect with an empty handle removes
\* exactly the entries whose handle was dropped (an expired entry resolves to
\* the empty handle too) and leaves the live ones in their order. No other
\* Signal's list changes.
C25_DisconnectRemovesHandleOrExpired ==
    [][\A s \in Observables, c \in held \cup {Null} :
           (op'.name = "disconnect" /\ SignalDisconnect(s, c)) =>
               /\ sig_connections_'[s] =
                      IF c # Null
                      THEN SelectSeq(sig_connections_[s], LAMBDA w : w # c)
                      ELSE SelectSeq(sig_connections_[s],
                                     LAMBDA w : w \in Strong(connections_, held))
               /\ \A r \in Observables \ {s} :
                      sig_connections_'[r] = sig_connections_[r]]_vars

\* a disconnect with the empty handle has met expired entries, and live
\* entries are left in a list
C25_Witness ==
    /\ op.name = "disconnect"
    /\ op.kind = "expired"
    /\ \E s \in Observables : sig_connections_[s] # <<>>
    /\ \A s \in Observables : Entries(sig_connections_[s]) \subseteq held

\* C23: the value set(v) delivers to the observers is the v it was called
\* with, in every interleaving with other set calls on the same
\* ObservableValue (thr[t].date is the v of the thread's call, thr[t].arg the
\* argument of its notifyObservers).
C23_SetDeliversItsValue ==
    \A t \in Threads :
        thr[t].pc \in Emitting =>
            /\ thr[t].arg = thr[t].date
            /\ \A i \in 1..Len(thr[t].invoked) : thr[t].invoked[i][2] = thr[t].date

\* C22: an observer's onNotify is never invoked once its destruction has
\* begun: however S.notify on one thread interleaves with ~Observer of a
\* registered observer on another, no slot of that observer runs between the
\* start of its destruction and the end of its unregistration.
C22_NoNotifyDuringDestruction ==
    [][\A t \in Threads :
          Len(thr'[t].invoked) > Len(thr[t].invoked) =>
              alive[thr'[t].invoked[Len(thr'[t].invoked)][1].obs]]_vars

\* C21: when two threads call registerWith(S) and unregisterWith(S) on the
\* same observer concurrently, the state reached once the calls have returned
\* satisfies the mirror in every interleaving: S is in the observer's tracked
\* set exactly when S's registry has an entry for it.
C21_MirrorAfterConcurrentCalls ==
    (\A t \in Racers : thr[t].pc = "idle") =>
        \A o \in Observers : (subject \in observables_[o]) <=> Registered(o, subject)

=============================================================================
